---- MODULE Spec2Model ----
(***************************************************************************)
(* Model of netcfgbu/netcfgbu_ssh.py: the ConfigBackupSSHSpec class.       *)
(*                                                                         *)
(* Every coroutine is cut at its await points: one action is the code that *)
(* the asyncio event loop runs without suspension when the awaited thing   *)
(* (connect, create_process, a read, wait_closed, a file write) completes. *)
(* The outcome of each awaited transport call is chosen by the device.     *)
(* Text is a sequence of one-character strings.                            *)
(***************************************************************************)
EXTENDS Integers, Sequences, FiniteSets, TLC

\* ------------------------------------------------------------------------
\* Bounds
\* ------------------------------------------------------------------------
NumSessions == 2        \* backup / test-login tasks run concurrently
MaxLimit == 2           \* largest value given to set_max_startups
MaxResets == 1          \* calls of set_max_startups while tasks run
MaxCreds == 2           \* length of app_cfg['credentials']
MaxCmdLen == 2          \* length of a command of the channel harness
MaxBodyLen == 3         \* length of a command output of the channel harness
MaxChunk == 3           \* most characters one stdout.read() delivers
MaxShortName == 2       \* length of the short names given to the prompt matcher

Sess == 1..NumSessions

\* ------------------------------------------------------------------------
\* Python values
\* ------------------------------------------------------------------------
None == "<None>"

\* bool(v) of an Optional[str]
Truthy(v) == v # None /\ v # ""

Min(a, b) == IF a < b THEN a ELSE b

\* text[i:] with i >= 0 (a Python slice never fails past the end)
SliceFrom(text, i) == SubSeq(text, Min(i, Len(text)) + 1, Len(text))

\* text[0:j], where a negative j counts from the end, as in Python
SliceTo(text, j) ==
    IF j >= 0 THEN SubSeq(text, 1, Min(j, Len(text)))
    ELSE IF Len(text) + j <= 0 THEN << >>
    ELSE SubSeq(text, 1, Len(text) + j)

\* text.rfind(ch) for a one-character ch: 0-based, -1 when absent
RFind(text, ch) ==
    IF \E i \in 1..Len(text) : text[i] = ch
    THEN (CHOOSE i \in 1..Len(text) :
             text[i] = ch /\ \A k \in (i+1)..Len(text) : text[k] # ch) - 1
    ELSE -1

\* text.find(sub): 0-based index of the first occurrence, -1 when absent
Find(text, sub) ==
    LET at(i) == i + Len(sub) <= Len(text)
                 /\ SubSeq(text, i + 1, i + Len(sub)) = sub
        hits == {i \in 0..Len(text) : at(i)}
    IN IF hits = {} THEN -1
       ELSE CHOOSE i \in hits : \A k \in hits : i <= k

\* ------------------------------------------------------------------------
\* PROMPT_PATTERN = ^\r?([a-z0-9.\-_@()/:]{1,32}\s*[#>$])\s*$   (re.M | re.I)
\* ------------------------------------------------------------------------
NL == "\n"
CR == "\r"
\* [a-z0-9.\-_@()/:] under re.I
PromptNameChars ==
    {"a","b","c","d","e","f","g","h","i","j","k","l","m",
     "n","o","p","q","r","s","t","u","v","w","x","y","z",
     "A","B","C","D","E","F","G","H","I","J","K","L","M",
     "N","O","P","Q","R","S","T","U","V","W","X","Y","Z",
     "0","1","2","3","4","5","6","7","8","9",
     ".", "-", "_", "@", "(", ")", "/", ":"}
PromptTerminators == {"#", ">", "$"}
\* \s
WhiteSpace == {" ", "\t", "\f", CR, NL}
PROMPT_NAME_MAX == 32
\* the repetition {1,32} of the name class
PROMPT_name_len_unbounded(n) == n >= 1
PROMPT_name_len(n) == n >= 1 /\ n <= PROMPT_NAME_MAX

\* PROMPT_PATTERN.match(line): the text of group 1, or None.  `line' is the
\* text after the last newline, so `$' can only match at its end (or before
\* a final newline, which `line' never has).  The split points are: n name
\* characters, then w1 blanks, then one terminator, then blanks to the end.
PROMPT_PATTERN_match(line) ==
    LET b == IF Len(line) >= 1 /\ line[1] = CR THEN 2 ELSE 1
        ok(n, w1) ==
            /\ PROMPT_name_len(n)
            /\ b + n + w1 <= Len(line)
            /\ \A i \in b..(b + n - 1) : line[i] \in PromptNameChars
            /\ \A i \in (b + n)..(b + n + w1 - 1) : line[i] \in WhiteSpace
            /\ line[b + n + w1] \in PromptTerminators
            /\ \A i \in (b + n + w1 + 1)..Len(line) : line[i] \in WhiteSpace
        hits == {t \in (1..Len(line)) \X (0..Len(line)) : ok(t[1], t[2])}
    IN IF hits = {} THEN None
       ELSE LET t == CHOOSE t \in hits : TRUE
            IN SubSeq(line, b, b + t[1] + t[2])

\* ------------------------------------------------------------------------
\* read_until_prompt / run_command on an accumulated buffer
\* ------------------------------------------------------------------------
\* One pass of the loop body of read_until_prompt on the buffer `output':
\* the prompt found on its last line (None: keep reading) ...
read_until_prompt_match(output) ==
    PROMPT_PATTERN_match(SliceFrom(output, RFind(output, NL) + 1))

\* ... and the text returned when a prompt is found: output[0:nl_at].
read_until_prompt_return(output) == SliceTo(output, RFind(output, NL))

\* wr_cmd = command + "\n"
wr_cmd(command) == command \o <<NL>>

\* run_command: output[len(wr_cmd) + 1:] of what read_until_prompt returned
run_command_return(command, output) ==
    SliceFrom(read_until_prompt_return(output), Len(wr_cmd(command)) + 1)

\* get_running_config without a process: res.stdout[ln_at:]
run_once_config(command, stdout) ==
    SliceFrom(stdout, Find(stdout, command) + Len(command) + 1)

\* show_running = 'show running-config'
show_running ==
    <<"s","h","o","w"," ","r","u","n","n","i","n","g","-","c","o","n","f","i","g">>

\* ------------------------------------------------------------------------
\* Exceptions and results
\* ------------------------------------------------------------------------
\* count: the number in PermissionDenied's "No valid username/password (n)"
\* flags: <<at_prompt, paging_disabled>> of the capture timeout
Exc(type, count, flags) == [type |-> type, count |-> count, flags |-> flags]
NoExc == Exc("None", -1, << >>)
AuthRejected == Exc("PermissionDenied", -1, << >>)     \* raised by connect
NoValidCredentials(n) == Exc("PermissionDenied", n, << >>)
ConnectTimeout == Exc("TimeoutError", -1, << >>)        \* wait_for(connect, 60)
ConnectError == Exc("ConnectionError", -1, << >>)
ChannelOpenError == Exc("ChannelOpenError", -1, << >>)  \* create_process
CaptureTimeout(ap, pd) == Exc("RuntimeError", -1, <<ap, pd>>)
CaptureError == Exc("ConnectionLost", -1, << >>)
SaveError == Exc("OSError", -1, << >>)

NoResult == [kind |-> "none", value |-> None, exc |-> NoExc]
Returned(v) == [kind |-> "returned", value |-> v, exc |-> NoExc]
Raised(e) == [kind |-> "raised", value |-> None, exc |-> e]

\* ------------------------------------------------------------------------
\* Inputs: host configuration, OS specification, application configuration
\* ------------------------------------------------------------------------
Cred(u, p) == [username |-> u, password |-> p]
GlobalCreds == {Cred("g1", "p1"), Cred("g2", "p2")}
HostCreds == {Cred(u, p) : u \in {None, "", "h"}, p \in {None, "", "hp"}}

\* app_cfg['credentials']: lists without repetition, shortest first
CredLists ==
    {<< >>} \cup
    UNION {{cl \in [1..n -> GlobalCreds] : \A i, j \in 1..n : cl[i] = cl[j] => i = j}
             : n \in 1..MaxCreds}

\* os_spec['disable_paging']: absent, one command string, or a list
PagingCmd1 == <<"t", "l", "0">>
PagingCmd2 == <<"n", "o", "p">>
NoPaging == [kind |-> "absent", val |-> << >>]
PagingStr(c) == [kind |-> "str", val |-> c]
PagingList(l) == [kind |-> "list", val |-> l]
OsSpecs == {NoPaging, PagingStr(PagingCmd1), PagingList(<<PagingCmd1>>),
            PagingList(<<PagingCmd1, PagingCmd2>>)}

\* what a device prints for the show command, and its prompt
DeviceBodies == {<< >>, <<"x", "y">>}
DevicePrompt == <<"r", "1", "#">>

\* ------------------------------------------------------------------------
\* State
\* ------------------------------------------------------------------------
VARIABLES
    device,       \* what the devices of this run may answer
    app_cfg,      \* app_cfg['credentials']
    host_cfg,     \* per session: host_cfg username / password
    os_spec,      \* per session: os_spec['disable_paging']
    op,           \* per session: the public coroutine that was called
    pc,           \* per session: the await the task is suspended at
    creds,        \* login(): the local try-list
    idx,          \* login(): position of try_cred in creds
    conn_args,    \* self.conn_args username / password
    conn,         \* self.conn: "none", "open", "closed"
    process,      \* self.process is set
    config,       \* self.config
    save_file,    \* self.save_file is set
    failed,       \* self.failed
    flags,        \* get_running_config(): <<at_prompt, paging_disabled>>
    cmd_idx,      \* run_disable_paging(): position in the command list
    writes,       \* what was written to process.stdin, in order
    prompts,      \* how many times read_until_prompt() returned
    ran,          \* the commands given to conn.run(), in order
    stdout,       \* res.stdout of conn.run()
    login_as,     \* test_login(): the local login_as
    logged,       \* backup_config(): the exception of its "BACKUP FAILED" log
    result,       \* what the public coroutine returned or raised
    login_exc,    \* the exception that left login(), if one did
    attempts,     \* the credentials asyncssh.connect was called with, in order
    outcomes,     \* how each of these connect calls ended, in order
    sems,         \* every asyncio.Semaphore created so far
    sem_limit,    \* the value each of them was created with
    cur_sem,      \* the one cls._max_startups_sem4 is bound to
    held,         \* per session: the semaphore it is inside `async with' of (0: none)
    waiting,      \* per session: the semaphore whose acquire() it is suspended in
    woken,        \* waiters whose future was resolved by release()
    ch            \* the channel harness (run_command on one channel)

vars == <<device, app_cfg, host_cfg, os_spec, op, pc, creds, idx, conn_args, conn,
          process, config, save_file, failed, flags, cmd_idx, writes, prompts,
          ran, stdout, login_as, logged, result, login_exc, attempts, outcomes, sems, sem_limit,
          cur_sem, held, waiting, woken, ch>>

inputs == <<device, app_cfg, host_cfg, os_spec>>
loginv == <<creds, idx, conn_args, failed, attempts, outcomes>>
semv == <<sems, held, waiting, woken>>
capturev == <<config, save_file, flags, cmd_idx, writes, prompts, stdout, logged>>

\* ------------------------------------------------------------------------
\* asyncio.Semaphore
\* ------------------------------------------------------------------------
Semaphore(value) == [value |-> value, waiters |-> << >>]

\* release(): value += 1, then _wake_up_next() resolves the first waiter
release(sem) ==
    [value |-> sem.value + 1,
     waiters |-> IF sem.waiters = << >> THEN << >> ELSE Tail(sem.waiters)]

sem_exit_leak(s, S, W, H) == [sems |-> S, woken |-> W, held |-> H]

\* leaving `async with sem' for session s: the semaphores S, the resolved
\* waiters W and the slots H after __aexit__ called release()
sem_exit(s, S, W, H) ==
    [sems |-> [S EXCEPT ![H[s]] = release(@)],
     woken |-> IF S[H[s]].waiters = << >> THEN W ELSE W \cup {Head(S[H[s]].waiters)},
     held |-> [H EXCEPT ![s] = 0]]

\* `while self._value <= 0' of acquire(): the caller has to wait
sem_locked_late(sem) == sem.value < 0
sem_locked(sem) == sem.value <= 0

\* acquire() on semaphore h by session s, up to its first suspension, from
\* semaphores S, resolved waiters W and slots H: either the slot is taken
\* and connect() is called with cargs, or s joins the waiters
acquire(s, S, W, H, h, cargs) ==
    /\ woken' = W \ {s}
    /\ IF sem_locked(S[h])
       THEN /\ sems' = [S EXCEPT ![h].waiters = Append(@, s)]
            /\ held' = H
            /\ waiting' = [waiting EXCEPT ![s] = h]
            /\ attempts' = attempts
            /\ pc' = [pc EXCEPT ![s] = "acquire"]
       ELSE /\ sems' = [S EXCEPT ![h].value = @ - 1]
            /\ held' = [H EXCEPT ![s] = h]
            /\ waiting' = [waiting EXCEPT ![s] = 0]
            /\ attempts' = [attempts EXCEPT ![s] = Append(@, cargs)]
            /\ pc' = [pc EXCEPT ![s] = "connect"]

\* ------------------------------------------------------------------------
\* login()
\* ------------------------------------------------------------------------
\* creds = copy(app_cfg['credentials']); host credentials are inserted first
\* when all(host_creds.values())
login_creds_appended(host, credentials) ==
    IF Truthy(host.username) /\ Truthy(host.password)
    THEN credentials \o <<host>>
    ELSE credentials

login_creds(host, credentials) ==
    IF Truthy(host.username) /\ Truthy(host.password)
    THEN <<host>> \o credentials
    ELSE credentials

\* self.conn_args.update(try_cred)
conn_args_update(args, try_cred) ==
    [args EXCEPT !.username = try_cred.username, !.password = try_cred.password]

\* except asyncssh.PermissionDenied: ... continue
login_absorbs_timeout(exc) == exc.type \in {"PermissionDenied", "TimeoutError"}
login_absorbs(exc) == exc.type = "PermissionDenied"

\* raise asyncssh.PermissionDenied(reason=f'No valid username/password ({len(creds)})')
login_exhausted_global(crds) == NoValidCredentials(Len(app_cfg))
login_exhausted(crds) == NoValidCredentials(Len(crds))

\* 'disable_paging' in self.os_spec or self.disable_paging  (the class
\* attribute disable_paging is None)
needs_process_always(spec) == TRUE
needs_process(spec) == spec.kind # "absent"

\* One iteration of `for try_cred in creds' up to its first suspension.
try_cred(s, i, crds, S, W, H) ==
    /\ failed' = [failed EXCEPT ![s] = NoExc]
    /\ idx' = [idx EXCEPT ![s] = i]
    /\ conn_args' = [conn_args EXCEPT ![s] = conn_args_update(@, crds[i])]
    /\ acquire(s, S, W, H, cur_sem, conn_args_update(conn_args[s], crds[i]))

\* An exception leaves login(): backup_config() does not handle it,
\* test_login() handles asyncssh.PermissionDenied and returns login_as (None).
login_raises(s, o, exc) ==
    /\ login_exc' = [login_exc EXCEPT ![s] = exc]
    /\ IF o = "test" /\ exc.type = "PermissionDenied"
       THEN /\ pc' = [pc EXCEPT ![s] = "done"]
            /\ result' = [result EXCEPT ![s] = Returned(login_as[s])]
       ELSE /\ pc' = [pc EXCEPT ![s] = "raised"]
            /\ result' = [result EXCEPT ![s] = Raised(exc)]

\* test_login(): login_as = self.conn_args['username']
login_as_first(s) == creds[s][1].username
login_as_value(s) == conn_args[s].username

\* login() returned self.conn and the caller entered `async with':
\* backup_config() starts get_running_config(), test_login() reads the
\* username and leaves the block, which closes the connection.
login_returns(s, proc) ==
    IF op[s] = "backup"
    THEN /\ pc' = [pc EXCEPT ![s] = IF proc THEN "prompt_sync" ELSE "run_once"]
         /\ conn' = [conn EXCEPT ![s] = "open"]
         /\ ran' = [ran EXCEPT ![s] = IF proc THEN @ ELSE Append(@, show_running)]
         /\ UNCHANGED login_as
    ELSE /\ pc' = [pc EXCEPT ![s] = "closing"]
         /\ conn' = [conn EXCEPT ![s] = "closed"]
         /\ UNCHANGED ran
         /\ login_as' = [login_as EXCEPT ![s] = login_as_value(s)]

\* backup_config() / test_login() is called: login() runs to its first await.
Start(s) ==
    /\ pc[s] = "idle"
    /\ \E o \in {"backup", "test"} :
         LET crds == login_creds(host_cfg[s], app_cfg) IN
           /\ op' = [op EXCEPT ![s] = o]
           /\ creds' = [creds EXCEPT ![s] = crds]
           /\ IF crds = << >>
              THEN /\ login_raises(s, o, login_exhausted(crds))
                   /\ UNCHANGED <<idx, conn_args, failed, attempts, semv>>
              ELSE /\ try_cred(s, 1, crds, sems, woken, held)
                   /\ UNCHANGED <<result, login_exc>>
    /\ UNCHANGED <<inputs, ran, outcomes, conn, process, capturev, login_as, cur_sem, sem_limit, ch>>

\* A waiter of acquire() whose future was resolved runs again.
AcquireResume(s) ==
    /\ pc[s] = "acquire"
    /\ s \in woken
    /\ acquire(s, sems, woken, held, waiting[s], conn_args[s])
    /\ UNCHANGED <<inputs, ran, op, creds, idx, conn_args, failed, outcomes, conn, process,
                   capturev, login_as, result, login_exc, cur_sem, sem_limit, ch>>

\* await asyncio.wait_for(asyncssh.connect(**self.conn_args), timeout=60) ends
ConnectDone(s) ==
    /\ pc[s] = "connect"
    /\ \E exc \in {NoExc} \cup device.connect :
         LET X == sem_exit(s, sems, woken, held) IN
         /\ outcomes' = [outcomes EXCEPT ![s] = Append(@, exc)]
         /\ IF exc = NoExc
            THEN IF needs_process(os_spec[s])
                 THEN /\ conn' = [conn EXCEPT ![s] = "open"]
                      /\ pc' = [pc EXCEPT ![s] = "create_process"]
                      /\ UNCHANGED <<semv, creds, idx, conn_args, failed, attempts,
                                     login_as, result, login_exc, ran>>
                 ELSE /\ sems' = X.sems /\ woken' = X.woken /\ held' = X.held
                      /\ login_returns(s, FALSE)
                      /\ UNCHANGED <<waiting, creds, idx, conn_args, failed,
                                     attempts, result, login_exc>>
            ELSE IF login_absorbs(exc) /\ idx[s] < Len(creds[s])
            THEN /\ try_cred(s, idx[s] + 1, creds[s], X.sems, X.woken, X.held)
                 /\ UNCHANGED <<creds, conn, login_as, result, login_exc, ran>>
            ELSE /\ sems' = X.sems /\ woken' = X.woken /\ held' = X.held
                 /\ failed' = [failed EXCEPT ![s] = IF login_absorbs(exc) THEN exc ELSE @]
                 /\ login_raises(s, op[s], IF login_absorbs(exc)
                                           THEN login_exhausted(creds[s]) ELSE exc)
                 /\ UNCHANGED <<waiting, creds, idx, conn_args, attempts, conn,
                                login_as, ran>>
    /\ UNCHANGED <<inputs, op, process, capturev, cur_sem, sem_limit, ch>>

\* self.process = await self.conn.create_process(term_type='vt100') ends
CreateProcessDone(s) ==
    /\ pc[s] = "create_process"
    /\ LET X == sem_exit(s, sems, woken, held) IN
         sems' = X.sems /\ woken' = X.woken /\ held' = X.held
    /\ \E exc \in {NoExc, ChannelOpenError} :
         IF exc = NoExc
         THEN /\ process' = [process EXCEPT ![s] = TRUE]
              /\ login_returns(s, TRUE)
              /\ UNCHANGED <<result, login_exc>>
         ELSE /\ login_raises(s, op[s], exc)
              /\ UNCHANGED <<process, conn, login_as, ran>>
    /\ UNCHANGED <<inputs, op, waiting, loginv, capturev, cur_sem, sem_limit, ch>>

\* ------------------------------------------------------------------------
\* get_running_config(), close(), save_config()
\* ------------------------------------------------------------------------
NoConfig == <<None>>                     \* self.config = None

\* `if self.config:'
config_truthy_always(c) == TRUE
config_truthy(c) == c # NoConfig /\ c # << >>

\* run_disable_paging(): a single command is wrapped in a list
disable_paging_commands_chars(spec) ==
    IF spec.kind = "list" THEN spec.val
    ELSE [i \in 1..Len(spec.val) |-> <<spec.val[i]>>]
disable_paging_commands(spec) ==
    IF spec.kind = "list" THEN spec.val ELSE <<spec.val>>

\* what a device sends back for a command: its echo, the output, a prompt
Newlines == {<<NL>>, <<CR, NL>>}
device_stream(command, nl, body) == command \o nl \o body \o nl \o DevicePrompt

\* the outcome of an awaited capture step: the text received, or an exception
Outcome(ok, text, exc) == [ok |-> ok, text |-> text, exc |-> exc]
Received(text) == Outcome(TRUE, text, NoExc)
Failure(exc) == Outcome(FALSE, << >>, exc)

\* asyncio.TimeoutError is turned into RuntimeError with the two flags
capture_timeout_swapped(s) == CaptureTimeout(flags[s][2], flags[s][1])
capture_timeout(s) == CaptureTimeout(flags[s][1], flags[s][2])

\* the failures of a wait_for(..., timeout) of get_running_config()
capture_failures(s) ==
    {Failure(IF k = "timeout" THEN capture_timeout(s) ELSE CaptureError) :
       k \in device.capture}

\* get_running_config() raised exc: backup_config() logs it and closes
capture_failed(s, exc) ==
    /\ logged' = [logged EXCEPT ![s] = exc]
    /\ conn' = [conn EXCEPT ![s] = "closed"]
    /\ pc' = [pc EXCEPT ![s] = "closing"]

\* get_running_config() returned: backup_config() closes
capture_returned(s) ==
    /\ logged' = logged
    /\ conn' = [conn EXCEPT ![s] = "closed"]
    /\ pc' = [pc EXCEPT ![s] = "closing"]

\* run_command(command) up to its await: the command is written to stdin
run_command_write(s, command) ==
    writes' = [writes EXCEPT ![s] = Append(@, wr_cmd(command))]

\* res = await self.conn.run(command) ends (no interactive process; the
\* call has no timeout)
RunOnceDone(s) ==
    /\ pc[s] = "run_once"
    /\ \E out \in {Received(t) : t \in device.stdouts}
                  \cup {Failure(CaptureError) : k \in device.capture \cap {"error"}} :
         IF out.ok
         THEN /\ stdout' = [stdout EXCEPT ![s] = out.text]
              /\ config' = [config EXCEPT ![s] = run_once_config(show_running, out.text)]
              /\ capture_returned(s)
         ELSE /\ capture_failed(s, out.exc)
              /\ UNCHANGED <<config, stdout>>
    /\ UNCHANGED <<inputs, ran, op, loginv, semv, process, save_file, flags, cmd_idx,
                   writes, prompts, login_as, result, login_exc, cur_sem, sem_limit, ch>>

\* the steps of run_disable_paging() and of the show command that follow a
\* prompt: command number k of the list is written, or the show command is
paging_next_early(s, k) ==
    LET cmds == disable_paging_commands(os_spec[s]) IN
    IF k < Len(cmds)
    THEN /\ cmd_idx' = [cmd_idx EXCEPT ![s] = k]
         /\ flags' = [flags EXCEPT ![s] = <<TRUE, FALSE>>]
         /\ run_command_write(s, cmds[k])
         /\ pc' = [pc EXCEPT ![s] = "disable_paging"]
    ELSE /\ cmd_idx' = cmd_idx
         /\ flags' = [flags EXCEPT ![s] = <<TRUE, TRUE>>]
         /\ run_command_write(s, show_running)
         /\ pc' = [pc EXCEPT ![s] = "show_cmd"]
paging_next(s, k) ==
    LET cmds == disable_paging_commands(os_spec[s]) IN
    IF k <= Len(cmds)
    THEN /\ cmd_idx' = [cmd_idx EXCEPT ![s] = k]
         /\ flags' = [flags EXCEPT ![s] = <<TRUE, FALSE>>]
         /\ run_command_write(s, cmds[k])
         /\ pc' = [pc EXCEPT ![s] = "disable_paging"]
    ELSE /\ cmd_idx' = cmd_idx
         /\ flags' = [flags EXCEPT ![s] = <<TRUE, TRUE>>]
         /\ run_command_write(s, show_running)
         /\ pc' = [pc EXCEPT ![s] = "show_cmd"]

\* await asyncio.wait_for(self.read_until_prompt(), timeout=30) ends
PromptSyncDone(s) ==
    /\ pc[s] = "prompt_sync"
    /\ \E out \in {Received(DevicePrompt)} \cup capture_failures(s) :
         IF out.ok
         THEN /\ paging_next(s, 1)
              /\ prompts' = [prompts EXCEPT ![s] = @ + 1]
              /\ UNCHANGED <<logged, conn>>
         ELSE /\ capture_failed(s, out.exc)
              /\ UNCHANGED <<cmd_idx, flags, writes, prompts>>
    /\ UNCHANGED <<inputs, ran, stdout, op, loginv, semv, process, config, save_file,
                   login_as, result, login_exc, cur_sem, sem_limit, ch>>

\* inside wait_for(self.run_disable_paging(), timeout=30): the prompt after
\* one paging command was read, or the wait ends with an error
DisablePagingDone(s) ==
    /\ pc[s] = "disable_paging"
    /\ \E out \in {Received(DevicePrompt)} \cup capture_failures(s) :
         IF out.ok
         THEN /\ paging_next(s, cmd_idx[s] + 1)
              /\ prompts' = [prompts EXCEPT ![s] = @ + 1]
              /\ UNCHANGED <<logged, conn>>
         ELSE /\ capture_failed(s, out.exc)
              /\ UNCHANGED <<cmd_idx, flags, writes, prompts>>
    /\ UNCHANGED <<inputs, ran, stdout, op, loginv, semv, process, config, save_file,
                   login_as, result, login_exc, cur_sem, sem_limit, ch>>

\* await asyncio.wait_for(self.run_command(command), timeout=120) ends
ShowCmdDone(s) ==
    /\ pc[s] = "show_cmd"
    /\ \E out \in {Received(t) : t \in device.streams} \cup capture_failures(s) :
         IF out.ok
         THEN /\ config' = [config EXCEPT ![s] = run_command_return(show_running, out.text)]
              /\ prompts' = [prompts EXCEPT ![s] = @ + 1]
              /\ capture_returned(s)
         ELSE /\ capture_failed(s, out.exc)
              /\ UNCHANGED <<config, prompts>>
    /\ UNCHANGED <<inputs, ran, op, loginv, semv, process, save_file, flags, cmd_idx,
                   writes, stdout, login_as, result, login_exc, cur_sem, sem_limit, ch>>

\* await self.conn.wait_closed() ends: test_login() returns login_as,
\* backup_config() saves the configuration if there is one
CloseDone(s) ==
    /\ pc[s] = "closing"
    /\ IF op[s] = "test"
       THEN /\ result' = [result EXCEPT ![s] = Returned(login_as[s])]
            /\ pc' = [pc EXCEPT ![s] = "done"]
            /\ UNCHANGED save_file
       ELSE IF config_truthy(config[s])
       THEN /\ save_file' = [save_file EXCEPT ![s] = TRUE]
            /\ pc' = [pc EXCEPT ![s] = "saving"]
            /\ UNCHANGED result
       ELSE /\ result' = [result EXCEPT ![s] = Returned("self")]
            /\ pc' = [pc EXCEPT ![s] = "done"]
            /\ UNCHANGED save_file
    /\ UNCHANGED <<inputs, ran, op, loginv, semv, conn, process, config, flags,
                   cmd_idx, writes, prompts, stdout, login_as, logged, login_exc, cur_sem, sem_limit, ch>>

\* the writes of save_config() end
SaveDone(s) ==
    /\ pc[s] = "saving"
    /\ \/ /\ result' = [result EXCEPT ![s] = Returned("self")]
          /\ pc' = [pc EXCEPT ![s] = "done"]
       \/ /\ result' = [result EXCEPT ![s] = Raised(SaveError)]
          /\ pc' = [pc EXCEPT ![s] = "raised"]
    /\ UNCHANGED <<inputs, ran, op, loginv, semv, conn, process, capturev, login_as,
                   login_exc, cur_sem, sem_limit, ch>>

\* cls._max_startups_sem4 = asyncio.Semaphore(value=max_startups)
set_max_startups ==
    /\ Len(sems) <= MaxResets
    /\ \E n \in 1..MaxLimit :
         /\ sems' = Append(sems, Semaphore(n))
         /\ sem_limit' = Append(sem_limit, n)
         /\ cur_sem' = Len(sems) + 1
    /\ UNCHANGED <<inputs, ran, op, pc, loginv, held, waiting, woken, conn, process,
                   capturev, login_as, result, login_exc, ch>>

\* ------------------------------------------------------------------------
\* One interactive channel: run_command(command) against a device whose
\* answer arrives in reads of any size
\* ------------------------------------------------------------------------
ChIdle == [pc |-> "idle", command |-> << >>, stream |-> << >>, nl |-> << >>,
           body |-> << >>, prompt |-> << >>,
           output |-> << >>, stdin |-> << >>, cur_prompt |-> <<None>>,
           ret |-> <<None>>, call |-> "none", sent |-> << >>,
           read_ret |-> <<None>>]

\* every sequence over `chars' of length lo..hi
SeqsOf(chars, lo, hi) == UNION {[1..n -> chars] : n \in lo..hi}

ChCommands == SeqsOf({"a", "b"}, 1, MaxCmdLen)
ChBodies == SeqsOf({"x", "#", NL}, 0, MaxBodyLen)
ChPrompts == {<<"r", "#">>, <<CR, "r", ">">>}
\* what a device sends before its first prompt: nothing, or a banner
ChBanners == {<< >>} \cup {b \o nl : b \in ChBodies, nl \in Newlines}

\* run_command(): wr_cmd is written, read_until_prompt() starts with output = ''
ChRunCommand ==
    /\ ch.pc = "start"
    /\ ch' = [ch EXCEPT !.pc = "reading", !.stdin = @ \o wr_cmd(ch.command),
                        !.output = << >>]
    /\ UNCHANGED <<inputs, ran, op, pc, loginv, semv, cur_sem, sem_limit, conn, process,
                   capturev, login_as, result, login_exc>>

\* get_running_config() calls read_until_prompt() before any command is
\* written: it starts with output = ''
ChReadUntilPrompt ==
    /\ ch.pc = "sync"
    /\ ch' = [ch EXCEPT !.pc = "reading", !.output = << >>]
    /\ UNCHANGED <<inputs, ran, op, pc, loginv, semv, cur_sem, sem_limit, conn, process,
                   capturev, login_as, result, login_exc>>

\* output += await self.process.stdout.read(...): the next k characters of
\* the stream arrive; on a prompt both coroutines return
ChRead ==
    /\ ch.pc = "reading"
    /\ \E k \in 1..Min(MaxChunk, Len(ch.stream)) :
         LET output == ch.output \o SubSeq(ch.stream, 1, k)
             mobj == read_until_prompt_match(output)
         IN ch' = [ch EXCEPT
                     !.stream = SubSeq(@, k + 1, Len(@)),
                     !.output = output,
                     !.pc = IF mobj = None THEN "reading" ELSE "done",
                     !.cur_prompt = IF mobj = None THEN @ ELSE mobj,
                     !.read_ret = IF mobj = None THEN @
                                  ELSE read_until_prompt_return(output),
                     !.ret = IF mobj = None \/ ch.call # "run_command" THEN @
                             ELSE run_command_return(ch.command, output)]
    /\ UNCHANGED <<inputs, ran, op, pc, loginv, semv, cur_sem, sem_limit, conn, process,
                   capturev, login_as, result, login_exc>>

\* ------------------------------------------------------------------------
\* The prompt matcher on one line
\* ------------------------------------------------------------------------
\* the lines tried: a lead, a name, a gap, a terminator, a tail
Repeat(c, n) == [i \in 1..n |-> c]
LineLeads == {<< >>, <<CR>>, <<" ">>}
LineNames ==
    {Repeat("a", n) : n \in {0, PROMPT_NAME_MAX - 1, PROMPT_NAME_MAX,
                             PROMPT_NAME_MAX + 1}}
    \cup SeqsOf({"r", "R", "1", "-", "!", " "}, 1, MaxShortName)
LineGaps == {<< >>, <<" ">>, <<"\t", " ">>}
LineTerminators == {<< >>, <<"#">>, <<">">>, <<"$">>, <<"%">>}
LineTails == {<< >>, <<" ">>, <<CR>>, <<"x">>}
Lines ==
    {lead \o name \o gap \o term \o tail :
       lead \in LineLeads, name \in LineNames, gap \in LineGaps,
       term \in LineTerminators, tail \in LineTails}

\* mobj = self.PROMPT_PATTERN.match(line); self._cur_prompt = mobj.group(1)
PromptMatch ==
    /\ ch.pc = "line"
    /\ LET mobj == PROMPT_PATTERN_match(ch.stream) IN
         ch' = [ch EXCEPT !.pc = IF mobj = None THEN "rejected" ELSE "accepted",
                          !.cur_prompt = IF mobj = None THEN @ ELSE mobj]
    /\ UNCHANGED <<inputs, ran, op, pc, loginv, semv, cur_sem, sem_limit, conn, process,
                   capturev, login_as, result, login_exc>>

\* ------------------------------------------------------------------------
\* Specifications
\* ------------------------------------------------------------------------
\* the state of the sessions in `tasks' after __init__; the others are not used
InitSessions(tasks) ==
    /\ op = [s \in Sess |-> "none"]
    /\ pc = [s \in Sess |-> IF s \in tasks THEN "idle" ELSE "unused"]
    /\ creds = [s \in Sess |-> << >>]
    /\ idx = [s \in Sess |-> 0]
    /\ conn_args = [s \in Sess |-> Cred(None, None)]
    /\ conn = [s \in Sess |-> "none"]
    /\ process = [s \in Sess |-> FALSE]
    /\ config = [s \in Sess |-> NoConfig]
    /\ save_file = [s \in Sess |-> FALSE]
    /\ failed = [s \in Sess |-> NoExc]
    /\ flags = [s \in Sess |-> <<FALSE, FALSE>>]
    /\ cmd_idx = [s \in Sess |-> 0]
    /\ writes = [s \in Sess |-> << >>]
    /\ prompts = [s \in Sess |-> 0]
    /\ ran = [s \in Sess |-> << >>]
    /\ stdout = [s \in Sess |-> <<None>>]
    /\ login_as = [s \in Sess |-> None]
    /\ logged = [s \in Sess |-> NoExc]
    /\ result = [s \in Sess |-> NoResult]
    /\ attempts = [s \in Sess |-> << >>]
    /\ login_exc = [s \in Sess |-> NoExc]
    /\ outcomes = [s \in Sess |-> << >>]
    /\ \E n \in 1..MaxLimit : sems = <<Semaphore(n)>> /\ sem_limit = <<n>>
    /\ cur_sem = 1
    /\ held = [s \in Sess |-> 0]
    /\ waiting = [s \in Sess |-> 0]
    /\ woken = {}

\* devices that answer in any of the modelled ways
AnyDevices ==
    [connect |-> {AuthRejected, ConnectTimeout, ConnectError},
     capture |-> {"timeout", "error"},
     stdouts |-> UNION {{body, show_running \o <<NL>> \o body} : body \in DeviceBodies},
     streams |-> {device_stream(show_running, nl, body) :
                    nl \in Newlines, body \in DeviceBodies}]

\* devices that reject credentials or time out, and answer in one way
QuietDevices ==
    [connect |-> {AuthRejected, ConnectTimeout},
     capture |-> {"timeout"},
     stdouts |-> {show_running \o <<NL, "x", "y">>},
     streams |-> {device_stream(show_running, <<CR, NL>>, <<"x", "y">>)}]

\* every session runs: each host has credentials of its own besides the
\* global one, and every second host an OS with a paging command
Init ==
    /\ InitSessions(Sess)
    /\ device = QuietDevices
    /\ app_cfg = <<Cred("g1", "p1")>>
    /\ host_cfg = [s \in Sess |-> Cred("h", "hp")]
    /\ os_spec = [s \in Sess |-> IF s % 2 = 1 THEN PagingStr(PagingCmd1) ELSE NoPaging]
    /\ ch = ChIdle

\* one session, every configuration
InitLogin ==
    /\ InitSessions({1})
    /\ device = AnyDevices
    /\ app_cfg \in CredLists
    /\ host_cfg \in [Sess -> HostCreds]
    /\ \A s \in Sess \ {1} : host_cfg[s] = Cred(None, None)
    /\ os_spec \in [Sess -> OsSpecs]
    /\ \A s \in Sess \ {1} : os_spec[s] = NoPaging
    /\ ch = ChIdle

\* no session, one channel
InitChannel ==
    /\ InitSessions({})
    /\ device = AnyDevices
    /\ app_cfg = << >>
    /\ host_cfg = [s \in Sess |-> Cred(None, None)]
    /\ os_spec = [s \in Sess |-> NoPaging]
    /\ \/ \E command \in ChCommands, body \in ChBodies, nl \in Newlines,
             prompt \in ChPrompts :
            ch = [ChIdle EXCEPT !.pc = "start", !.call = "run_command",
                    !.command = command,
                    !.stream = command \o nl \o body \o nl \o prompt,
                    !.sent = command \o nl \o body \o nl \o prompt,
                    !.nl = nl, !.body = body, !.prompt = prompt]
       \/ \E banner \in ChBanners, prompt \in ChPrompts :
            ch = [ChIdle EXCEPT !.pc = "sync", !.call = "read_until_prompt",
                    !.stream = banner \o prompt, !.sent = banner \o prompt,
                    !.prompt = prompt]

\* no session, one line given to the prompt matcher
InitPrompt ==
    /\ InitSessions({})
    /\ device = AnyDevices
    /\ app_cfg = << >>
    /\ host_cfg = [s \in Sess |-> Cred(None, None)]
    /\ os_spec = [s \in Sess |-> NoPaging]
    /\ \E line \in Lines : ch = [ChIdle EXCEPT !.pc = "line", !.stream = line]

NextLogin ==
    \E s \in Sess :
        \/ Start(s)
        \/ ConnectDone(s)
        \/ CreateProcessDone(s)
        \/ RunOnceDone(s)
        \/ PromptSyncDone(s)
        \/ DisablePagingDone(s)
        \/ ShowCmdDone(s)
        \/ CloseDone(s)
        \/ SaveDone(s)

NextFixed ==
    \/ NextLogin
    \/ \E s \in Sess : AcquireResume(s)

Next ==
    \/ NextFixed
    \/ set_max_startups

NextChannel ==
    \/ ChRunCommand
    \/ ChReadUntilPrompt
    \/ ChRead

NextPrompt == PromptMatch

Spec == Init /\ [][Next]_vars
SpecFixed == Init /\ [][NextFixed]_vars
SpecLogin == InitLogin /\ [][NextLogin]_vars
SpecChannel == InitChannel /\ [][NextChannel]_vars
SpecPrompt == InitPrompt /\ [][NextPrompt]_vars

\* The event loop runs every task that is ready, and an await inside
\* asyncio.wait_for(..., timeout) ends when the timeout does: these steps
\* are taken once they are possible.  create_process() and conn.run() are
\* awaited with no timeout, so nothing makes their steps happen.
Fairness ==
    \A s \in Sess :
        /\ WF_vars(Start(s))
        /\ WF_vars(AcquireResume(s))
        /\ WF_vars(ConnectDone(s))
        /\ WF_vars(PromptSyncDone(s))
        /\ WF_vars(DisablePagingDone(s))
        /\ WF_vars(ShowCmdDone(s))
        /\ WF_vars(CloseDone(s))
        /\ WF_vars(SaveDone(s))
SpecLive == Init /\ [][NextFixed]_vars /\ Fairness

\* ------------------------------------------------------------------------
\* Properties
\* ------------------------------------------------------------------------
ConnectPhase == {"connect", "create_process"}
CapturePhase == {"run_once", "prompt_sync", "disable_paging", "show_cmd",
                 "closing", "saving"}
Ended == {"done", "raised"}

\* the sessions inside `async with sem' after acquire() returned
InConnectPhase == {s \in Sess : pc[s] \in ConnectPhase}

\* the try-list the claims describe: the complete host credential, then the
\* global ones
HostComplete(s) ==
    /\ host_cfg[s].username # None /\ host_cfg[s].username # ""
    /\ host_cfg[s].password # None /\ host_cfg[s].password # ""
IsPrefix(a, b) == Len(a) <= Len(b) /\ SubSeq(b, 1, Len(a)) = a

LoginErrors == {"PermissionDenied", "TimeoutError", "ConnectionError",
                "ChannelOpenError"}
CaptureErrors == {"RuntimeError", "ConnectionLost"}

\* C1: backup_config() returns the session whatever login and capture did:
\* a login or capture error is never raised to the caller, and after such an
\* error the session has no captured configuration.
C1_BackupAlwaysReturns ==
    \A s \in Sess :
        op[s] = "backup" =>
          /\ (result[s].kind = "raised" =>
                result[s].exc.type \notin LoginErrors \cup CaptureErrors)
          /\ (pc[s] \in Ended /\ (login_exc[s] # NoExc \/ logged[s] # NoExc) =>
                /\ result[s].kind = "returned"
                /\ config[s] = NoConfig)

\* C2: a connection that was established is closed when the backup attempt
\* has ended, whichever way it ended.
C2_ConnectionClosedAtEnd ==
    \A s \in Sess :
        op[s] = "backup" /\ pc[s] \in Ended => conn[s] # "open"

C4_LimitCountsHolders ==
    [][\A s \in Sess :
         pc[s] \notin ConnectPhase /\ pc'[s] \in ConnectPhase =>
           Cardinality(InConnectPhase) < sem_limit[cur_sem]]_vars

\* C5: a session is inside the semaphore exactly while a connection attempt
\* of its own is in progress, never during capture, close or save, and each
\* semaphore has as many free slots as its limit minus such sessions.
C5_SlotOnlyWhileConnecting ==
    /\ \A s \in Sess : (held[s] # 0) <=> (pc[s] \in ConnectPhase)
    /\ \A h \in 1..Len(sems) :
         sems[h].value =
           sem_limit[h] - Cardinality({s \in Sess : pc[s] \in ConnectPhase /\ held[s] = h})

\* a session that was connected is capturing and the slot it had is free
C5_Witness ==
    \E s \in Sess :
        /\ pc[s] = "show_cmd"
        /\ held[s] = 0
        /\ outcomes[s] = <<AuthRejected, NoExc>>
        /\ sems[cur_sem].value = sem_limit[cur_sem]

\* C6: connect is called with the complete host credential first and then
\* with the global credentials in their order; with an incomplete host
\* credential, with the global credentials only.
C6_CredentialOrder ==
    \A s \in Sess :
        IsPrefix(attempts[s],
                 IF HostComplete(s) THEN <<host_cfg[s]>> \o app_cfg ELSE app_cfg)

\* the host credential and two global ones were tried, in this order
C6_Witness ==
    \E s \in Sess :
        /\ HostComplete(s)
        /\ Len(app_cfg) >= 2
        /\ attempts[s] = <<host_cfg[s], app_cfg[1], app_cfg[2]>>

\* C7: after a rejected attempt the session goes on to the next candidate
\* while one is left; when none is left login() fails with PermissionDenied,
\* every candidate was tried and rejected and the error carries their number
\* (0 for an empty try-list).
C7_AllRejectedCount ==
    \A s \in Sess :
        LET k == Len(outcomes[s])
            n == Len(app_cfg) + (IF HostComplete(s) THEN 1 ELSE 0)
        IN
        /\ (k > 0 /\ outcomes[s][k] = AuthRejected /\ k < n =>
              \/ pc[s] = "acquire" /\ Len(attempts[s]) = k
              \/ pc[s] = "connect" /\ Len(attempts[s]) = k + 1)
        /\ (k > 0 /\ outcomes[s][k] = AuthRejected /\ k >= n =>
              login_exc[s].type = "PermissionDenied")
        /\ (op[s] # "none" /\ n = 0 => login_exc[s].type = "PermissionDenied")
        /\ (login_exc[s].type = "PermissionDenied" =>
              /\ login_exc[s].count = Len(attempts[s])
              /\ login_exc[s].count = n
              /\ k = n
              /\ \A i \in 1..k : outcomes[s][i] = AuthRejected)

\* the host credential and a global one were both rejected
C7_Witness ==
    \E s \in Sess :
        /\ login_exc[s].type = "PermissionDenied"
        /\ login_exc[s].count >= 2
        /\ HostComplete(s)

\* C8: a connect that ends with a timeout or a connection error is the last
\* attempt of the session, and that error leaves login() and reaches the
\* caller.
C8_OtherErrorsPropagate ==
    \A s \in Sess :
        \A i \in 1..Len(outcomes[s]) :
            outcomes[s][i].type \in {"TimeoutError", "ConnectionError"} =>
              /\ i = Len(attempts[s])
              /\ login_exc[s] = outcomes[s][i]
              /\ result[s] = Raised(outcomes[s][i])
              /\ pc[s] = "raised"

\* the first connect timed out although more candidates remained
C8_Witness ==
    \E s \in Sess :
        /\ Len(creds[s]) >= 2
        /\ outcomes[s] = <<ConnectTimeout>>
        /\ pc[s] = "raised"

\* C9: test_login() returns the username connect was last called with when
\* that call succeeded, None when all credentials were rejected, and raises
\* any other error of login().
C9_TestLoginResult ==
    \A s \in Sess :
        op[s] = "test" /\ pc[s] \in Ended =>
          IF login_exc[s] = NoExc
          THEN /\ outcomes[s][Len(outcomes[s])] = NoExc
               /\ result[s] = Returned(attempts[s][Len(attempts[s])].username)
          ELSE IF login_exc[s].type = "PermissionDenied"
          THEN result[s] = Returned(None)
          ELSE result[s] = Raised(login_exc[s])

\* the first candidate was rejected and the second one's username returned
C9_Witness ==
    \E s \in Sess :
        /\ op[s] = "test" /\ pc[s] = "done"
        /\ outcomes[s] = <<AuthRejected, NoExc>>
        /\ result[s].value = attempts[s][2].username
        /\ attempts[s][1].username # attempts[s][2].username

\* C10: run_command(cmd) on cmd + "\n" + body + "\n" + prompt returns body.
C10_RunCommandReturnsBody ==
    ch.pc = "done" /\ ch.nl = <<NL>> => ch.ret = ch.body

\* the last text written to stdin (<< >> when nothing was written)
LastWrite(s) == IF writes[s] = << >> THEN << >> ELSE writes[s][Len(writes[s])]

\* C11: the RuntimeError of a capture timeout carries (False, False) when
\* the wait for the first prompt timed out, (True, False) when the paging
\* commands did, (True, True) when the show command did.
C11_TimeoutFlags ==
    \A s \in Sess :
        logged[s].type = "RuntimeError" =>
          /\ logged[s].flags =
               IF writes[s] = << >> THEN <<FALSE, FALSE>>
               ELSE IF LastWrite(s) = wr_cmd(show_running) THEN <<TRUE, TRUE>>
               ELSE <<TRUE, FALSE>>
          /\ (logged[s].flags[2] => logged[s].flags[1])
          /\ config[s] = NoConfig

\* the wait after a paging command timed out
C11_Witness ==
    \E s \in Sess :
        /\ logged[s] = CaptureTimeout(TRUE, FALSE)
        /\ LastWrite(s) = wr_cmd(PagingCmd1)
        /\ pc[s] = "done"

\* C12: after a login failure, a capture timeout or a capture exception the
\* configuration is unset and nothing is saved; save_config() runs only with
\* a configuration that get_running_config() produced.
C12_SaveOnlyAfterCapture ==
    \A s \in Sess :
        /\ (login_exc[s] # NoExc \/ logged[s] # NoExc =>
              /\ config[s] = NoConfig
              /\ ~save_file[s]
              /\ pc[s] # "saving")
        /\ (save_file[s] \/ pc[s] = "saving" =>
              /\ config[s] # NoConfig /\ config[s] # << >>
              /\ login_exc[s] = NoExc /\ logged[s] = NoExc)

\* a backup whose capture failed has ended and nothing was saved
C12_Witness ==
    \E s \in Sess :
        /\ op[s] = "backup" /\ pc[s] = "done"
        /\ logged[s] # NoExc
        /\ ~save_file[s]

\* the profile names one paging command c, as the string c or the list [c]
SinglePaging(spec) ==
    spec.kind = "str" \/ (spec.kind = "list" /\ Len(spec.val) = 1)
SingleCmd(spec) == IF spec.kind = "str" THEN spec.val ELSE spec.val[1]

\* C13: a paging command given as the string c is written as the list [c]
\* is: c, then the show command, and the capture ends the same way.
C13_StringAsList ==
    \A s \in Sess :
        SinglePaging(os_spec[s]) =>
          LET expected == <<wr_cmd(SingleCmd(os_spec[s])), wr_cmd(show_running)>> IN
            /\ IsPrefix(writes[s], expected)
            /\ (pc[s] = "disable_paging" => Len(writes[s]) = 1)
            /\ (pc[s] = "show_cmd" \/ config[s] # NoConfig => writes[s] = expected)

\* a capture with the paging command given as a string completed
C13_Witness ==
    \E s \in Sess :
        /\ os_spec[s] = PagingStr(PagingCmd1)
        /\ writes[s] = <<wr_cmd(PagingCmd1), wr_cmd(show_running)>>
        /\ config[s] # NoConfig

\* login() returned a connection to the caller
LoggedIn(s) ==
    /\ login_exc[s] = NoExc
    /\ pc[s] \in CapturePhase \cup Ended

\* C15: after a successful login the interactive process exists exactly
\* when the OS profile has a paging command; without one the show command
\* is run once on the connection, nothing is written to a channel and no
\* prompt is waited for.
C15_ChannelIffPaging ==
    \A s \in Sess :
        /\ (process[s] => os_spec[s].kind # "absent")
        /\ (LoggedIn(s) => (process[s] <=> os_spec[s].kind # "absent"))
        /\ (LoggedIn(s) /\ op[s] = "backup" =>
              IF os_spec[s].kind = "absent"
              THEN /\ ran[s] = <<show_running>>
                   /\ writes[s] = << >>
                   /\ prompts[s] = 0
                   /\ pc[s] \notin {"prompt_sync", "disable_paging", "show_cmd"}
              ELSE /\ ran[s] = << >>
                   /\ pc[s] # "run_once")

\* a backup without a paging command captured a configuration
C15_Witness ==
    \E s \in Sess :
        /\ os_spec[s] = NoPaging
        /\ op[s] = "backup" /\ pc[s] = "done"
        /\ ran[s] = <<show_running>>
        /\ config[s] = <<"x", "y">>

\* what the interactive path writes: every paging command, then the show
\* command
ExpectedWrites(spec) ==
    LET cmds == IF spec.kind = "list" THEN spec.val ELSE <<spec.val>> IN
      [i \in 1..Len(cmds) |-> cmds[i] \o <<NL>>] \o <<show_running \o <<NL>>>>

\* C16: on the interactive path nothing is written before the first prompt,
\* the paging commands are written in list order, each after the prompt that
\* follows the one before, and the show command after the prompt of the last.
C16_WriteOrder ==
    \A s \in Sess :
        /\ Len(writes[s]) <= prompts[s]
        /\ (pc[s] \in {"disable_paging", "show_cmd"} => Len(writes[s]) = prompts[s])
        /\ (writes[s] # << >> =>
              /\ os_spec[s].kind # "absent"
              /\ IsPrefix(writes[s], ExpectedWrites(os_spec[s])))
        /\ (pc[s] = "show_cmd" => writes[s] = ExpectedWrites(os_spec[s]))

\* two paging commands and the show command were written, each after a prompt
C16_Witness ==
    \E s \in Sess :
        /\ os_spec[s] = PagingList(<<PagingCmd1, PagingCmd2>>)
        /\ writes[s] = <<wr_cmd(PagingCmd1), wr_cmd(PagingCmd2), wr_cmd(show_running)>>
        /\ prompts[s] = 4

\* C19: without a process the configuration is the output of the one-shot
\* command with the echo removed: what follows the echo line when the output
\* starts with it, the whole output when the output has no echo.
C19_OnlyEchoRemoved ==
    \A s \in Sess :
        stdout[s] # <<None>> =>
          config[s] =
            IF IsPrefix(show_running \o <<NL>>, stdout[s])
            THEN SubSeq(stdout[s], Len(show_running) + 2, Len(stdout[s]))
            ELSE IF Find(stdout[s], show_running) = -1
            THEN stdout[s]
            ELSE config[s]

\* C20: a backup that ended without a captured configuration has `failed'
\* set, and `failed' is unset only when the capture completed.
C20_FailedSet ==
    \A s \in Sess :
        op[s] = "backup" /\ pc[s] \in Ended =>
          (failed[s] = NoExc <=> config[s] # NoConfig)

\* the final line of the stream sent to read_until_prompt()
SentNlAt == RFind(ch.sent, NL)
SentBefore == SubSeq(ch.sent, 1, SentNlAt)
SentPrompt == IF ch.prompt[1] = CR THEN Tail(ch.prompt) ELSE ch.prompt

\* C17: whatever the sizes of the reads, read_until_prompt() ends at the
\* final prompt of the stream, records it, and returns the text before the
\* final line (with or without the newline that ends it), the empty text
\* when the stream is the prompt alone.
C17_ReadUntilPrompt ==
    ch.pc = "done" =>
      /\ ch.stream = << >>
      /\ ch.cur_prompt = SentPrompt
      /\ \/ ch.read_ret = SentBefore
         \/ SentNlAt >= 0 /\ ch.read_ret = SentBefore \o <<NL>>

\* C17 for the stream that is the prompt alone: the text returned is empty
C17_PromptAlone ==
    ch.pc = "done" /\ ch.sent = ch.prompt => ch.read_ret = << >>

\* a line as the right-to-left reading of the pattern sees it
Blanks == {" ", "\t", "\f", "\r"}
RECURSIVE RStrip(_)
RStrip(line) ==
    IF line # << >> /\ line[Len(line)] \in Blanks
    THEN RStrip(SubSeq(line, 1, Len(line) - 1)) ELSE line
NoLead(line) == IF line # << >> /\ line[1] = CR THEN Tail(line) ELSE line
Front(line) == SubSeq(line, 1, Len(line) - 1)
IsName(name) ==
    /\ Len(name) >= 1 /\ Len(name) <= 32
    /\ \A i \in 1..Len(name) : name[i] \in PromptNameChars

\* C14 as stated: a line is accepted exactly when it is an optional carriage
\* return, a name of 1 to 32 characters and one terminator, nothing else.
C14_StrictPrompt ==
    ch.pc \in {"accepted", "rejected"} =>
      LET line == NoLead(ch.stream) IN
        (ch.pc = "accepted") <=>
          /\ line # << >>
          /\ line[Len(line)] \in {"#", ">", "$"}
          /\ IsName(Front(line))

\* C14 amended: a line is accepted exactly when it is an optional carriage
\* return, a name of 1 to 32 characters, optional blanks, one terminator and
\* optional blanks to the end of the line; the prompt recorded is the line
\* without the carriage return and the blanks at its end.
C14_BlankTolerantPrompt ==
    ch.pc \in {"accepted", "rejected"} =>
      LET line == RStrip(NoLead(ch.stream)) IN
        /\ (ch.pc = "accepted") <=>
             /\ line # << >>
             /\ line[Len(line)] \in {"#", ">", "$"}
             /\ IsName(RStrip(Front(line)))
        /\ (ch.pc = "accepted" => ch.cur_prompt = line)

\* a name of 32 characters was accepted with a blank before the terminator
C14_Witness ==
    /\ ch.pc = "accepted"
    /\ ch.stream = Repeat("a", 32) \o <<" ", "#">>

\* C18: a slot that was acquired is released, and a session waiting for a
\* slot gets one, even when a device stops answering during connect() or
\* create_process().
C18_SlotEventuallyReleased ==
    \A s \in Sess :
        /\ (held[s] # 0) ~> (held[s] = 0)
        /\ (waiting[s] # 0) ~> (waiting[s] = 0)

\* the part of C18 that the connect timeout gives: a slot held during
\* connect() is released or the session has moved on to create_process()
C18_ConnectEnds ==
    \A s \in Sess : (pc[s] = "connect") ~> (pc[s] # "connect")

====
